---- MODULE Spec2Model ----
(***************************************************************************)
(* The A* search engine of src/a_star.rs: the State trait (heuristic,      *)
(* successors, is_end), the reversed Priority order, the Entry whose       *)
(* equality is its state alone, and the loop of solve over a               *)
(* priority_queue::PriorityQueue and a HashSet of visited states.          *)
(*                                                                         *)
(* A domain is a finite graph: succ[n] is the Vec<(u64, State)> that       *)
(* n.successors() returns (in its order, parallel edges allowed), heur[n]  *)
(* is n.heuristic(), ends is the set of states with is_end().              *)
(***************************************************************************)
EXTENDS Integers, Sequences, FiniteSets, TLC

\* ------------------------------------------------------------------ bounds
NumNodes == 3
MaxEdges == 3
MaxWeight == 1
MaxHeur == 1
MaxExpansions == 2
MaxLetter == 4
MaxRow == 4
MaxStarts == 3
MaxSide == 2
MaxTime == 5

\* ------------------------------------------------------- 64-bit unsigned
(***************************************************************************)
(* A number is held as [k, r] and stands for k * 2^64 + r, r small in      *)
(* absolute value: 0 is [0, 0], u64::MAX is [1, -1], 2^64 is [1, 0].       *)
(* Sums are exact; a sum fits a u64 when it is below 2^64.                 *)
(***************************************************************************)
Small(n) == [k |-> 0, r |-> n]

U64_MAX == [k |-> 1, r |-> -1]

NumAdd(a, b) == [k |-> a.k + b.k, r |-> a.r + b.r]

NumLess(a, b) == a.k < b.k \/ (a.k = b.k /\ a.r < b.r)

NumLeq(a, b) == a = b \/ NumLess(a, b)

FitsU64(x) == (x.k = 0 /\ x.r >= 0) \/ (x.k = 1 /\ x.r < 0)

\* x modulo 2^64, for x >= 0
WrapU64(x) == IF x.r >= 0 THEN [k |-> 0, r |-> x.r] ELSE [k |-> 1, r |-> x.r]

\* ------------------------------------------------------------------ state
VARIABLES
    succ,            \* succ[n]: what n.successors() returns, a sequence of <<weight, next>>
    heur,            \* heur[n]: n.heuristic()
    ends,            \* the states n with n.is_end()
    overflowChecks,  \* the build: TRUE when u64 `+` panics on overflow, FALSE when it wraps
    start,           \* the argument of the running call of solve
    queue,           \* the PriorityQueue: a set of [item |-> Entry, priority |-> Priority]
    visited,         \* the HashSet visited
    pc,              \* "running", or how the call ended: "ok", "err", "panic"
    ret,             \* the value returned: [cost, route] on Ok
    expanded,        \* expanded[n]: how many times successors() was called on n in this call
    prev,            \* what the previous call of solve returned, for the caller
    height_map,      \* day12: the parsed HeightMap
    part,            \* day12: the part Solver::solve is at, 1 or 2 (0: solve called by itself)
    starts,          \* day12: the Vec starts of find_shortest_route
    best,            \* day12: the Option best of find_shortest_route
    map,             \* day24: the parsed Map
    grid,            \* day24: the lines of the input the Map was parsed from
    probe            \* day24: the position last asked of is_free_at_time at time 0, and the answer

vars == <<succ, heur, ends, overflowChecks, start, queue, visited, pc, ret, expanded, prev,
         height_map, part, starts, best, map, grid, probe>>

Nodes == DOMAIN succ

\* ------------------------------------------------------------- the domain
\* State::heuristic
heuristic(n) == heur[n]

\* State::successors
successors(n) == succ[n]

\* the bug of a goal test that no popped state passes
is_end_Never(n) == FALSE

\* State::is_end
is_end(n) == n \in ends

\* ------------------------------------------------------------- Priority
\* Priority::partial_cmp / cmp: the order of the wrapped u64, reversed
PriorityLess(p, q) == NumLess(q, p)

\* Entry::priority: Priority(self.cost + self.state.heuristic())
EntrySum(cost, state) == NumAdd(cost, heuristic(state))

EntryPriority(cost, state) == WrapU64(EntrySum(cost, state))

\* the bug of a derived PartialEq: entries are equal when every field is
EntryEq_Derived(e, f) == e = f

\* Entry::eq: entries are equal when their states are
EntryEq(e, f) == e.state = f.state

\* ------------------------------------------------- the priority queue
\* the bug of push in place of push_increase: the priority of a queued item
\* is set to the new one whether that raises it or not
PushIncrease_Push(q, item, priority) ==
    LET same == {x \in q : EntryEq(x.item, item)}
    IN  (q \ same) \cup {[item |-> (IF same = {} THEN item ELSE (CHOOSE x \in same : TRUE).item),
                          priority |-> priority]}

\* PriorityQueue::push_increase(item, priority), as the priority_queue crate
\* documents it: when no equal item is queued, insert; when an equal item is
\* queued with a lower priority, "its priority is increased to the new one
\* without replacing the element"; otherwise the queue is left alone. Items
\* are equal by Entry::eq, so the queued Entry keeps its own cost and route.
PushIncrease(q, item, priority) ==
    LET same == {x \in q : EntryEq(x.item, item)}
    IN  IF same = {}
        THEN q \cup {[item |-> item, priority |-> priority]}
        ELSE LET x == CHOOSE x \in same : TRUE
             IN  IF PriorityLess(x.priority, priority)
                 THEN (q \ {x}) \cup {[item |-> x.item, priority |-> priority]}
                 ELSE q

\* PriorityQueue::pop yields an item of the greatest priority; which one among
\* equals is the heap's business
PopCandidates(q) == {x \in q : \A y \in q : ~PriorityLess(x.priority, y.priority)}

\* --------------------------------------------------------------- solve
NoRet == [cost |-> Small(0), route |-> <<>>]

\* the bug of a start entry whose route is left empty
StartQueue_EmptyRoute(s) ==
    {[item |-> [cost |-> Small(0), state |-> s, route |-> <<>>],
      priority |-> EntryPriority(Small(0), s)]}

\* lines 52-61: the queue holds the start entry, nothing is visited
StartQueue(s) ==
    {[item |-> [cost |-> Small(0), state |-> s, route |-> <<s>>],
      priority |-> EntryPriority(Small(0), s)]}

\* the bug of a peek in place of the pop: the entry stays queued
Remove_Peek(q, x) == q

\* line 63: pop takes the entry out of the queue
Remove(q, x) == q \ {x}

\* the bug of a loop that forgets the insert
VisitedAfter_NoInsert(seen, state) == seen

\* line 68: visited.insert(state.clone())
VisitedAfter(seen, state) == seen \cup {state}

\* the bug of a loop without the visited test
IsVisited_Never(seen, next_state) == FALSE

\* line 71: visited.contains(&next_state)
IsVisited(seen, next_state) == next_state \in seen

\* the bug of a `break` in place of the `continue`
ContinueFrom_Break(i, edges) == Len(edges) + 1

\* line 72: `continue` goes on with the next successor
ContinueFrom(i, edges) == i + 1

\* the bug of a route that is cloned and not pushed to
NextEntry_NoRoutePush(cost, route, edge) ==
    [cost |-> WrapU64(NumAdd(cost, edge[1])), state |-> edge[2], route |-> route]

\* lines 75-81: the entry of a successor: the cost so far plus delta, the route
\* so far with the successor pushed
NextEntry(cost, route, edge) ==
    [cost |-> WrapU64(NumAdd(cost, edge[1])), state |-> edge[2],
     route |-> Append(route, edge[2])]

\* does `cost + delta` or `cost + heuristic()` of this successor overflow a u64
EdgeOverflows(cost, edge) ==
    \/ ~FitsU64(NumAdd(cost, edge[1]))
    \/ ~FitsU64(EntrySum(WrapU64(NumAdd(cost, edge[1])), edge[2]))

\* lines 70-85: the for loop over state.successors(), from its i-th element on.
\* Yields the queue after the loop and whether an addition overflowed on the way.
RECURSIVE PushSuccessors(_, _, _, _, _, _)
PushSuccessors(q, seen, cost, route, edges, i) ==
    IF i > Len(edges)
    THEN [queue |-> q, overflow |-> FALSE]
    ELSE LET edge == edges[i]
             next_state == edge[2]
         IN  IF IsVisited(seen, next_state)
             THEN PushSuccessors(q, seen, cost, route, edges, ContinueFrom(i, edges))
             ELSE IF EdgeOverflows(cost, edge) /\ overflowChecks
             THEN [queue |-> q, overflow |-> TRUE]
             ELSE LET next_entry == NextEntry(cost, route, edge)
                      priority == EntryPriority(next_entry.cost, next_entry.state)
                  IN  PushSuccessors(PushIncrease(q, next_entry, priority),
                                     seen, cost, route, edges, i + 1)

\* lines 63-66: the popped state is an end: return Ok((cost, route))
PopEnd ==
    /\ pc = "running"
    /\ \E x \in PopCandidates(queue) :
        /\ is_end(x.item.state)
        /\ queue' = Remove(queue, x)
        /\ ret' = [cost |-> x.item.cost, route |-> x.item.route]
        /\ pc' = "ok"
    /\ UNCHANGED <<succ, heur, ends, overflowChecks, start, visited, expanded, prev, height_map, part, starts, best, map, grid, probe>>

\* lines 63-85: one turn of the loop on a state that is not an end
Expand ==
    /\ pc = "running"
    /\ \E x \in PopCandidates(queue) :
        LET state == x.item.state
            seen == VisitedAfter(visited, state)
            after == PushSuccessors(Remove(queue, x), seen, x.item.cost, x.item.route,
                                    successors(state), 1)
        IN  /\ ~is_end(state)
            /\ visited' = seen
            /\ expanded' = [expanded EXCEPT ![state] = IF @ < MaxExpansions THEN @ + 1 ELSE @]
            /\ queue' = after.queue
            /\ pc' = IF after.overflow THEN "panic" ELSE "running"
    /\ UNCHANGED <<succ, heur, ends, overflowChecks, start, ret, prev, height_map, part, starts, best, map, grid, probe>>

\* lines 63, 88: the queue is empty: return Err(visited)
Exhaust ==
    /\ pc = "running"
    /\ queue = {}
    /\ pc' = "err"
    /\ UNCHANGED <<succ, heur, ends, overflowChecks, start, queue, visited, ret, expanded, prev, height_map, part, starts, best, map, grid, probe>>

\* what a call that returned gave its caller
Outcome == [pc |-> pc, cost |-> ret.cost]

\* lines 51-61: the caller keeps what the call returned and calls solve with
\* an equal start once more
CallAgain ==
    /\ pc \in {"ok", "err"}
    /\ prev' = Outcome
    /\ prev.pc = "none"
    /\ queue' = StartQueue(start)
    /\ visited' = {}
    /\ expanded' = [n \in Nodes |-> 0]
    /\ ret' = NoRet
    /\ pc' = "running"
    /\ UNCHANGED <<succ, heur, ends, overflowChecks, start, height_map, part, starts, best, map, grid, probe>>

\* --------------------------------------------------------------- inputs
Edges(nodes, weights) == weights \X nodes

EdgeSeqs(nodes, weights, m) == UNION {[1..k -> Edges(nodes, weights)] : k \in 0..m}

\* every assignment of successor lists to the nodes 1..n with at most m edges in all
RECURSIVE Graphs(_, _, _, _)
Graphs(n, nodes, weights, m) ==
    IF n = 0
    THEN {<<>>}
    ELSE UNION {{Append(g, s) : g \in Graphs(n - 1, nodes, weights, m - Len(s))} :
                s \in EdgeSeqs(nodes, weights, m)}

SmallWeights == {Small(w) : w \in 0..MaxWeight}

Heuristics == {Small(v) : v \in 0..MaxHeur}

\* a call of solve by itself: no height map, no caller's loop
NoMap == [cells |-> <<>>, heights |-> <<>>, start |-> 0, end |-> 0]

\* Option<u64>: None
None == [some |-> FALSE, value |-> Small(0)]

\* no Map of day24, nothing asked of it
NoBlizzards == [blizzards |-> <<>>, height |-> 0, width |-> 0, start |-> <<0, -1>>, end |-> <<-1, 0>>]

NoProbe == [asked |-> FALSE, position |-> <<0, 0>>, is_free |-> FALSE, should_be_free |-> FALSE]

NoDay24 ==
    /\ map = NoBlizzards
    /\ grid = <<>>
    /\ probe = NoProbe

InitCall(from) ==
    /\ start \in from
    /\ queue = StartQueue(start)
    /\ visited = {}
    /\ expanded = [n \in Nodes |-> 0]
    /\ pc = "running"
    /\ ret = NoRet
    /\ prev = [pc |-> "none", cost |-> Small(0)]
    /\ height_map = NoMap
    /\ part = 0
    /\ starts = <<>>
    /\ best = None
    /\ NoDay24

Init ==
    /\ succ \in Graphs(NumNodes, 1..NumNodes, SmallWeights, MaxEdges)
    /\ heur \in [1..NumNodes -> Heuristics]
    /\ ends \in SUBSET (1..NumNodes)
    /\ overflowChecks = TRUE
    /\ InitCall(Nodes)

Next == PopEnd \/ Expand \/ Exhaust

Spec == Init /\ [][Next]_vars

\* weights up to u64::MAX, in a build that checks `+` for overflow and in one
\* that does not
InitU64 ==
    /\ succ \in Graphs(NumNodes, 1..NumNodes, SmallWeights \cup {U64_MAX}, MaxEdges - 1)
    /\ heur \in [1..NumNodes -> Heuristics]
    /\ ends \in SUBSET (1..NumNodes)
    /\ overflowChecks \in BOOLEAN
    /\ InitCall(Nodes)

SpecU64 == InitU64 /\ [][Next]_vars

\* one more node, the edges going from a node to a later one: for each pair
\* of nodes no edge or one edge of a small weight. The nodes before start
\* cannot be reached in such a graph, so start is the first node.
RECURSIVE ForwardLists(_, _)
ForwardLists(v, n) ==
    IF v > n
    THEN {<<>>}
    ELSE LET rest == ForwardLists(v + 1, n)
         IN  rest \cup {<<<<w, v>>>> \o l : w \in SmallWeights, l \in rest}

RECURSIVE ForwardGraphsFrom(_, _)
ForwardGraphsFrom(u, n) ==
    IF u > n
    THEN {<<>>}
    ELSE {<<l>> \o g : l \in ForwardLists(u + 1, n), g \in ForwardGraphsFrom(u + 1, n)}

ForwardGraphs(n) == ForwardGraphsFrom(1, n)

InitCalls ==
    /\ succ \in ForwardGraphs(NumNodes + 1)
    /\ heur \in [1..(NumNodes + 1) -> Heuristics]
    /\ ends \in SUBSET (1..(NumNodes + 1))
    /\ overflowChecks = TRUE
    /\ InitCall({1})

NextCalls == Next \/ CallAgain

SpecCalls == InitCalls /\ [][NextCalls]_vars

\* chains of up to one more node: node i has no successor or the one
\* successor i + 1, the heuristic counts up to the hops of the chain. The
\* nodes before start cannot be reached, so start is the first node.
RECURSIVE ChainGraphs(_, _)
ChainGraphs(u, n) ==
    IF u >= n
    THEN {<<<<>>>>}
    ELSE {<<l>> \o g : l \in {<<>>} \cup {<<<<w, u + 1>>>> : w \in SmallWeights},
                       g \in ChainGraphs(u + 1, n)}

InitChains ==
    /\ \E n \in 1..(NumNodes + 1) :
        /\ succ \in ChainGraphs(1, n)
        /\ heur \in [1..n -> {Small(v) : v \in 0..(n - 1)}]
        /\ ends \in SUBSET (1..n)
    /\ overflowChecks = TRUE
    /\ InitCall({1})

SpecChains == InitChains /\ [][Next]_vars

\* fairness: solve is a loop that runs until it returns; nothing suspends it
FairSpec == Spec /\ WF_vars(Next)

\* ---------------------------------------------- the graph, independently
\* the weights of the edges from u to v
EdgeWeights(u, v) == {succ[u][i][1] : i \in {j \in 1..Len(succ[u]) : succ[u][j][2] = v}}

MinNum(S) == CHOOSE x \in S : \A y \in S : NumLeq(x, y)

Only(S) == CHOOSE x \in S : TRUE

IsPath(p) == \A i \in 1..(Len(p) - 1) : EdgeWeights(p[i], p[i + 1]) # {}

Last(p) == p[Len(p)]

\* the nodes one reaches from the nodes of S, S included
RECURSIVE Closure(_)
Closure(S) ==
    LET step == S \cup UNION {{succ[n][i][2] : i \in 1..Len(succ[n])} : n \in S}
    IN  IF step = S THEN S ELSE Closure(step)

ReachableFrom(s) == Closure({s})

\* Bellman-Ford, k rounds: d[n] holds the least cost found from n to an end,
\* and is empty while none is found
RECURSIVE Relax(_, _)
Relax(d, k) ==
    IF k = 0
    THEN d
    ELSE Relax([n \in Nodes |->
                   LET via == d[n] \cup UNION {{NumAdd(succ[n][i][1], c) : c \in d[succ[n][i][2]]} :
                                               i \in 1..Len(succ[n])}
                   IN  IF via = {} THEN {} ELSE {MinNum(via)}],
               k - 1)

\* the cost of a cheapest path from each node to an end (weights are not
\* negative, so a cheapest path has fewer edges than there are nodes)
CostToEnd == Relax([n \in Nodes |-> IF n \in ends THEN {Small(0)} ELSE {}], Cardinality(Nodes))

GoalReachable(s) == CostToEnd[s] # {}

ShortestCost(s) == Only(CostToEnd[s])

\* heuristic(n) never exceeds the cost that remains from n to an end
Admissible ==
    LET d == CostToEnd
    IN  \A n \in Nodes : d[n] # {} => NumLeq(heur[n], Only(d[n]))

\* every sum of weights one can collect along the route, from its i-th node on
RECURSIVE RouteCosts(_, _)
RouteCosts(p, i) ==
    IF i >= Len(p)
    THEN {Small(0)}
    ELSE {NumAdd(w, c) : w \in EdgeWeights(p[i], p[i + 1]), c \in RouteCosts(p, i + 1)}

\* uniform-cost search: settle the open node of the least cost until an end is
\* settled or no node is open; best[n] holds the least cost found for n, if any
RECURSIVE DijkstraLoop(_, _)
DijkstraLoop(dist, done) ==
    LET open == {n \in Nodes \ done : dist[n] # {}}
    IN  IF open = {}
        THEN [found |-> FALSE, cost |-> Small(0)]
        ELSE LET u == CHOOSE n \in open : \A m \in open : NumLeq(Only(dist[n]), Only(dist[m]))
                 d == Only(dist[u])
                 relaxed == [n \in Nodes |->
                     IF n \notin done \cup {u} /\ EdgeWeights(u, n) # {}
                     THEN {MinNum(dist[n] \cup {NumAdd(d, w) : w \in EdgeWeights(u, n)})}
                     ELSE dist[n]]
             IN  IF u \in ends
                 THEN [found |-> TRUE, cost |-> d]
                 ELSE DijkstraLoop(relaxed, done \cup {u})

Dijkstra(s) == DijkstraLoop([n \in Nodes |-> IF n = s THEN {Small(0)} ELSE {}], {})

ZeroHeuristic == \A n \in Nodes : heur[n] = Small(0)

\* ---------------------------------------------------------------- day12
\* 'a'..='z'
Alphabet == <<"a", "b", "c", "d", "e", "f", "g", "h", "i", "j", "k", "l", "m",
              "n", "o", "p", "q", "r", "s", "t", "u", "v", "w", "x", "y", "z">>

\* get_height: 'S' counts as 'a', 'E' as 'z'; actual_h as u8 - b'a'
get_height(h) ==
    LET actual_h == IF h = "S" THEN "a" ELSE IF h = "E" THEN "z" ELSE h
    IN  (CHOOSE i \in 1..Len(Alphabet) : Alphabet[i] = actual_h) - 1

is_start(h) == h = "S"

is_end_char(h) == h = "E"

\* read_height_chars: the characters of the lines with their positions
\* <<x, y>>, line after line
RECURSIVE read_height_chars(_, _)
read_height_chars(rows, y) ==
    IF y > Len(rows)
    THEN <<>>
    ELSE [x \in 1..Len(rows[y]) |-> [position |-> <<x - 1, y - 1>>, h |-> rows[y][x]]]
         \o read_height_chars(rows, y + 1)

\* the last of the positions of at: a later start or end character
\* overwrites an earlier one
LastWhere(at) == CHOOSE i \in at : \A j \in at : j <= i

\* HeightMap::from_str, for an input with a start and an end. A state of the
\* search is a position; position cells[p] is the node p.
from_str(rows) ==
    LET chars == read_height_chars(rows, 1)
    IN  [cells |-> [p \in 1..Len(chars) |-> chars[p].position],
         heights |-> [p \in 1..Len(chars) |-> get_height(chars[p].h)],
         start |-> LastWhere({i \in 1..Len(chars) : is_start(chars[i].h)}),
         end |-> LastWhere({i \in 1..Len(chars) : is_end_char(chars[i].h)})]

\* Position::adjacent
Adjacent == <<<<1, 0>>, <<0, 1>>, <<-1, 0>>, <<0, -1>>>>

\* the subtraction of two u8, wrapping where the build does not check it
U8Sub(a, b) == (a - b) % 256

\* the bug of the subtraction the other way round: the height here less the
\* height of the end
Day12Heuristic_Reversed(hm, p) == Small(U8Sub(hm.heights[p], hm.heights[hm.end]))

\* State::heuristic of day12: the height of the end less the height here
Day12Heuristic(hm, p) == Small(U8Sub(hm.heights[hm.end], hm.heights[p]))

\* State::successors of day12: the adjacent positions of the map that are at
\* most one higher, each at weight 1
Day12Successors(hm, p) ==
    LET at(d) == {q \in 1..Len(hm.cells) :
                      hm.cells[q] = <<hm.cells[p][1] + d[1], hm.cells[p][2] + d[2]>>}
        open(d) == at(d) # {} /\ hm.heights[Only(at(d))] <= hm.heights[p] + 1
        kept == SelectSeq(Adjacent, open)
    IN  [i \in 1..Len(kept) |-> <<Small(1), Only(at(kept[i]))>>]

\* all_start_points: the positions of height 0
all_start_points(hm) == {p \in 1..Len(hm.cells) : hm.heights[p] = 0}

\* the orders in which a set can be listed in a Vec
Orders(S) == {o \in [1..Cardinality(S) -> S] : \A i, j \in 1..Cardinality(S) : o[i] = o[j] => i = j}

Front(v) == SubSeq(v, 1, Len(v) - 1)

\* find_shortest_route, `while let Some(start) = starts.pop()`: the next start
\* is taken from the back of the Vec and solve begins on it; with no start left
\* the function returns best
LoopHead(rest, found) ==
    /\ best' = found
    /\ IF rest = <<>>
       THEN /\ pc' = "returned"
            /\ starts' = rest
            /\ UNCHANGED <<start, queue, visited, expanded, ret>>
       ELSE /\ pc' = "running"
            /\ start' = Last(rest)
            /\ starts' = Front(rest)
            /\ queue' = StartQueue(Last(rest))
            /\ visited' = {}
            /\ expanded' = [n \in Nodes |-> 0]
            /\ ret' = NoRet
    /\ UNCHANGED <<succ, heur, ends, overflowChecks, prev, height_map, part, map, grid, probe>>

\* find_shortest_route, the arm Ok(distance): best becomes distance when
\* there is no best yet or distance < best
RouteOk ==
    /\ part # 0
    /\ pc = "ok"
    /\ LoopHead(starts, IF ~best.some \/ NumLess(ret.cost, best.value)
                        THEN [some |-> TRUE, value |-> ret.cost]
                        ELSE best)

\* find_shortest_route, the arm Err(visited): starts.retain(not visited)
RouteErr ==
    /\ part # 0
    /\ pc = "err"
    /\ LoopHead(SelectSeq(starts, LAMBDA s : s \notin visited), best)

\* the first turn of find_shortest_route on the Vec given
BeginRoute(given) ==
    /\ start = Last(given)
    /\ starts = Front(given)
    /\ best = None
    /\ queue = StartQueue(start)
    /\ visited = {}
    /\ expanded = [n \in Nodes |-> 0]
    /\ pc = "running"
    /\ ret = NoRet

\* Solver::solve: part one returned Some: part two runs find_shortest_route
\* on all_start_points, a Vec collected from a HashMap in the order of its
\* iteration
PartTwo ==
    /\ part = 1
    /\ pc = "returned"
    /\ best.some
    /\ part' = 2
    /\ \E given \in Orders(all_start_points(height_map)) :
        /\ start' = Last(given)
        /\ starts' = Front(given)
    /\ best' = None
    /\ queue' = StartQueue(start')
    /\ visited' = {}
    /\ expanded' = [n \in Nodes |-> 0]
    /\ pc' = "running"
    /\ ret' = NoRet
    /\ UNCHANGED <<succ, heur, ends, overflowChecks, prev, height_map, map, grid, probe>>

\* Solver::solve: .expect() on a None of part one
ExpectFails ==
    /\ part = 1
    /\ pc = "returned"
    /\ ~best.some
    /\ pc' = "panic"
    /\ UNCHANGED <<succ, heur, ends, overflowChecks, start, queue, visited, ret, expanded,
                   prev, height_map, part, starts, best, map, grid, probe>>

\* the letters of the cells that vary
Letters == {Alphabet[i] : i \in 1..MaxLetter}

Words(n) == UNION {[1..k -> Letters] : k \in 0..n}

\* the inputs: in the first line the start, two cells, the letters c to y one
\* after the other and the end; a second line of up to MaxRow cells
Day12Inputs ==
    {<< <<"S", c1, c2>> \o SubSeq(Alphabet, 3, 25) \o <<"E">>, row >> :
        c1 \in Letters, c2 \in Letters, row \in Words(MaxRow)}

\* Solver::solve on a parsed input: part one is find_shortest_route on
\* vec![height_map.start]
InitDay12 ==
    /\ \E rows \in Day12Inputs : height_map = from_str(rows)
    /\ Cardinality(all_start_points(height_map)) <= MaxStarts
    /\ succ = [p \in 1..Len(height_map.cells) |-> Day12Successors(height_map, p)]
    /\ heur = [p \in 1..Len(height_map.cells) |-> Day12Heuristic(height_map, p)]
    /\ ends = {height_map.end}
    /\ overflowChecks = TRUE
    /\ prev = [pc |-> "none", cost |-> Small(0)]
    /\ part = 1
    /\ BeginRoute(<<height_map.start>>)
    /\ NoDay24

NextDay12 == Next \/ RouteOk \/ RouteErr \/ PartTwo \/ ExpectFails

SpecDay12 == InitDay12 /\ [][NextDay12]_vars

\* ---------------------------------------------------------------- day24
\* a Direction::all that leaves out East and West
Directions_Vertical == {0, 2}

\* Direction::all: North, East, South, West as 0, 1, 2, 3 (`direction as usize`)
Directions == 0..3

\* Direction::as_char
as_char(direction) == <<"^", ">", "v", "<">>[direction + 1]

\* Map::from_str: the lines hold a frame of walls around height rows and
\* width columns; blizzards[d][outer] holds where along the column (North,
\* South) or the row (East, West) outer the blizzards of direction d are
Day24FromStr(lines) ==
    LET height == Len(lines) - 2
        width == Len(lines[1]) - 2
    IN  [blizzards |->
             [d \in 0..3 |->
                 LET outer_is_x == d \in {0, 2}
                     outer_len == IF outer_is_x THEN width ELSE height
                     inner_len == IF outer_is_x THEN height ELSE width
                 IN  [outer \in 0..(outer_len - 1) |->
                         {inner \in 0..(inner_len - 1) :
                             LET x == IF outer_is_x THEN outer ELSE inner
                                 y == IF outer_is_x THEN inner ELSE outer
                             IN  lines[y + 2][x + 2] = as_char(d)}]],
         height |-> height,
         width |-> width,
         start |-> <<0, -1>>,
         end |-> <<width - 1, height>>]

\* Map::blizzards_in_direction_at_time
blizzards_in_direction_at_time(m, direction, row_or_col, time) ==
    LET modulo == IF direction \in {0, 2} THEN m.height ELSE m.width
        offset == CASE direction = 0 -> m.height - 1
                    [] direction = 1 -> 1
                    [] direction = 2 -> 1
                    [] direction = 3 -> m.width - 1
    IN  {(pos + time * offset) % modulo : pos \in m.blizzards[direction][row_or_col]}

\* an is_free_at_time without the rule for the start and the end
is_free_at_time_NoStart(m, position, time) ==
    IF position[1] < 0 \/ position[2] < 0 \/ position[1] >= m.width \/ position[2] >= m.height
    THEN FALSE
    ELSE \A direction \in Directions :
             LET row_or_col == IF direction \in {0, 2} THEN position[1] ELSE position[2]
                 check == IF direction \in {0, 2} THEN position[2] ELSE position[1]
             IN  check \notin blizzards_in_direction_at_time(m, direction, row_or_col, time)

\* Map::is_free_at_time
is_free_at_time(m, position, time) ==
    IF position = m.start \/ position = m.end
    THEN TRUE
    ELSE IF position[1] < 0 \/ position[2] < 0 \/ position[1] >= m.width \/ position[2] >= m.height
    THEN FALSE
    ELSE \A direction \in Directions :
             LET row_or_col == IF direction \in {0, 2} THEN position[1] ELSE position[2]
                 check == IF direction \in {0, 2} THEN position[2] ELSE position[1]
             IN  check \notin blizzards_in_direction_at_time(m, direction, row_or_col, time)

Abs(n) == IF n < 0 THEN -n ELSE n

\* State::heuristic of day24: Position::manhattan_distance_to the end
Day24Heuristic(m, n) ==
    Small(Abs(n.position[1] - m.end[1]) + Abs(n.position[2] - m.end[2]))

\* State::successors of day24: stay or step to an adjacent position, where
\* that is free at time + 1, each at weight 1
Day24Successors(m, n) ==
    LET time == n.time + 1
        to == <<n.position>> \o [i \in 1..Len(Adjacent) |->
                                    <<n.position[1] + Adjacent[i][1], n.position[2] + Adjacent[i][2]>>]
        kept == SelectSeq(to, LAMBDA position : is_free_at_time(m, position, time))
    IN  [i \in 1..Len(kept) |-> <<Small(1), [position |-> kept[i], time |-> time]>>]

\* the inputs: a frame of walls with the start and the end in it, around up
\* to MaxSide rows and columns of free cells and blizzards
Day24Cells == {".", "^", ">", "v", "<"}

Walls(n) == [i \in 1..n |-> "#"]

Day24Grids ==
    UNION {{<< <<"#", ".">> \o Walls(w) >> \o [y \in 1..h |-> <<"#">> \o rows[y] \o <<"#">>]
               \o << Walls(w) \o <<".", "#">> >> :
            rows \in [1..h -> [1..w -> Day24Cells]]} :
           w \in 1..MaxSide, h \in 1..MaxSide}

\* the positions a state can be at: the start, the end and the cells
Day24Positions(m) == {m.start, m.end} \cup ((0..(m.width - 1)) \X (0..(m.height - 1)))

\* the states up to the time at which the model stops the search, and
\* their successors
Day24States(m) == [position : Day24Positions(m), time : 0..(MaxTime + 1)]

\* find_quickest_route on a parsed input: solve from the start at time 0
InitDay24 ==
    /\ grid \in Day24Grids
    /\ map = Day24FromStr(grid)
    /\ probe = NoProbe
    /\ succ = [n \in Day24States(map) |-> Day24Successors(map, n)]
    /\ heur = [n \in Day24States(map) |-> Day24Heuristic(map, n)]
    /\ ends = {n \in Day24States(map) : n.position = map.end}
    /\ overflowChecks = TRUE
    /\ start = [position |-> map.start, time |-> 0]
    /\ queue = StartQueue(start)
    /\ visited = {}
    /\ expanded = [n \in Nodes |-> 0]
    /\ pc = "running"
    /\ ret = NoRet
    /\ prev = [pc |-> "none", cost |-> Small(0)]
    /\ height_map = NoMap
    /\ part = 0
    /\ starts = <<>>
    /\ best = None

\* a turn of solve on a state of a time up to MaxTime; the search of the
\* model stops there
ExpandInTime ==
    /\ \A x \in PopCandidates(queue) : x.item.state.time <= MaxTime
    /\ Expand

\* the queue of a search of day24 is never found empty (C25), so that the
\* return of Err is no step of it
NextDay24 == PopEnd \/ ExpandInTime

SpecDay24 == InitDay24 /\ [][NextDay24]_vars

\* test_free_initial, for any input and position: is_free_at_time at time 0,
\* and whether the input holds '.' there
FreeInitial ==
    /\ pc = "testing"
    /\ \E x \in (-2)..(map.width + 1), y \in (-2)..(map.height + 1) :
        probe' = [asked |-> TRUE,
                  position |-> <<x, y>>,
                  is_free |-> is_free_at_time(map, <<x, y>>, 0),
                  should_be_free |-> /\ y + 2 \in 1..Len(grid)
                                     /\ x + 2 \in 1..Len(grid[y + 2])
                                     /\ grid[y + 2][x + 2] = "."]
    /\ UNCHANGED <<succ, heur, ends, overflowChecks, start, queue, visited, pc, ret, expanded, prev,
                   height_map, part, starts, best, map, grid>>

InitFree ==
    /\ grid \in Day24Grids
    /\ map = Day24FromStr(grid)
    /\ probe = NoProbe
    /\ succ = <<>>
    /\ heur = <<>>
    /\ ends = {}
    /\ overflowChecks = TRUE
    /\ start = 0
    /\ queue = {}
    /\ visited = {}
    /\ expanded = <<>>
    /\ pc = "testing"
    /\ ret = NoRet
    /\ prev = [pc |-> "none", cost |-> Small(0)]
    /\ height_map = NoMap
    /\ part = 0
    /\ starts = <<>>
    /\ best = None

SpecFree == InitFree /\ [][FreeInitial]_vars

\* ----------------------------------------------------------------- claims

\* C1: with an admissible heuristic, the cost of a successful solve is the
\* cost of a cheapest path from start to an end.
C1_OptimalCost == (pc = "ok" /\ Admissible) => ret.cost = ShortestCost(start)

\* C2: the route of a successful solve starts at start, ends at an end, each
\* step of it is an edge of successors(), and the cost is the sum of the
\* weights of those edges.
C2_RouteIsPath ==
    pc = "ok" =>
        /\ Len(ret.route) >= 1
        /\ ret.route[1] = start
        /\ is_end(Last(ret.route))
        /\ IsPath(ret.route)
        /\ ret.cost \in RouteCosts(ret.route, 1)

C2_Witness == pc = "ok" /\ Len(ret.route) >= 3

\* C3: solve succeeds exactly when an end is reachable from start, and fails
\* exactly when none is.
C3_VerdictIsReachability ==
    /\ pc = "ok" => GoalReachable(start)
    /\ pc = "err" => ~GoalReachable(start)

C3_Witness == pc = "err" /\ Cardinality(visited) >= 2 /\ ends # {}

\* C4: the visited set of a failed solve is the set of the nodes reachable
\* from start, start included.
C4_VisitedIsReachable == pc = "err" => visited = ReachableFrom(start)

C4_Witness == pc = "err" /\ Cardinality(visited) = 2

\* C5: no node has successors() called on it twice in one solve.
C5_ExpandedOnce == \A n \in Nodes : expanded[n] <= 1

C5_Witness ==
    /\ pc \in {"ok", "err"}
    /\ \E n \in Nodes : expanded[n] = 1 /\ Cardinality({i \in 1..Len(succ[n]) : succ[n][i][2] = n}) >= 1
    /\ \E n \in Nodes : \E m \in Nodes \ {n} :
         /\ EdgeWeights(n, m) # {} /\ EdgeWeights(m, n) # {}
         /\ expanded[n] = 1 /\ expanded[m] = 1

\* C6: when start is an end, solve returns (0, [start]), calls successors()
\* on nothing and visits nothing.
C6_StartIsEnd ==
    is_end(start) =>
        /\ pc \in {"running", "ok"}
        /\ pc = "running" => queue = StartQueue(start)
        /\ pc = "ok" => ret = [cost |-> Small(0), route |-> <<start>>]
        /\ visited = {}
        /\ \A n \in Nodes : expanded[n] = 0

C6_Witness == is_end(start) /\ pc = "ok" /\ succ[start] # <<>>

\* C7: with heuristic() == 0 everywhere, solve ends as a uniform-cost search
\* of the same graph does: the same verdict and, on success, the same cost.
C7_ZeroHeuristicIsDijkstra ==
    (pc \in {"ok", "err"} /\ ZeroHeuristic) =>
        /\ (pc = "ok") = Dijkstra(start).found
        /\ pc = "ok" => ret.cost = Dijkstra(start).cost

\* the states that have an entry in the queue
Queued(q) == {x.item.state : x \in q}

\* C8: every call of solve ends, with success or with the frontier exhausted,
\* and each turn of the loop either returns or moves one node from the
\* frontier into the visited set.
C8_Terminates ==
    /\ <>(pc \in {"ok", "err"})
    /\ [][pc = "running" =>
            \/ pc' \in {"ok", "err"}
            \/ \E n \in Queued(queue) \ visited :
                  /\ visited' = visited \cup {n}
                  /\ n \notin Queued(queue')]_vars

C8_Witness ==
    /\ pc = "err"
    /\ \E n \in visited : EdgeWeights(n, n) # {}
    /\ \E n \in visited : \E m \in visited \ {n} : EdgeWeights(n, m) # {} /\ EdgeWeights(m, n) # {}

\* C9: solve ends only by returning Ok or Err(visited): it never panics, the
\* additions cost + delta and cost + heuristic() included.
C9_NeverPanics == pc \in {"running", "ok", "err"}

\* C10: two calls on the same input, which can differ only in how the queue
\* breaks ties, end with the same verdict and the same cost.
C10_TieBreakFree ==
    (pc \in {"ok", "err"} /\ prev.pc # "none" /\ Admissible) =>
        /\ prev.pc = pc
        /\ pc = "ok" => prev.cost = ret.cost

\* the value returned by a successful call is a route from start to an end
\* whose edges add up to the cost
ValidResult ==
    /\ Len(ret.route) >= 1
    /\ ret.route[1] = start
    /\ is_end(Last(ret.route))
    /\ IsPath(ret.route)
    /\ ret.cost \in RouteCosts(ret.route, 1)

\* C11: with a heuristic that is not admissible solve still ends (a running
\* call can take a turn, and no node is expanded twice, so the turns are at
\* most as many as the nodes), succeeds exactly when an end is reachable and
\* returns a real route from start to an end; only the minimality of the
\* cost may be lost.
C11_InadmissibleStillSound ==
    \/ /\ pc = "running" => ENABLED Next
       /\ \A n \in Nodes : expanded[n] = (IF n \in visited THEN 1 ELSE 0)
       /\ pc = "ok" => GoalReachable(start) /\ ValidResult
       /\ pc = "err" => ~GoalReachable(start)
       /\ pc \in {"running", "ok", "err"}
    \/ Admissible

C11_Witness == pc = "ok" /\ ~Admissible /\ ret.cost # ShortestCost(start)

\* the line A -> B -> C -> D of unit weights, the heuristic the hops that
\* remain, D the only end, solve(A)
LineScenario ==
    /\ succ = << <<<<Small(1), 2>>>>, <<<<Small(1), 3>>>>, <<<<Small(1), 4>>>>, <<>> >>
    /\ heur = <<Small(3), Small(2), Small(1), Small(0)>>
    /\ ends = {4}
    /\ start = 1

\* C12: on the line A -> B -> C -> D solve(A) returns (3, [A, B, C, D]).
C12_LineGraph ==
    LineScenario =>
        /\ pc \in {"running", "ok"}
        /\ pc = "running" => ENABLED Next
        /\ pc = "ok" => ret = [cost |-> Small(3), route |-> <<1, 2, 3, 4>>]

C12_Witness == LineScenario /\ pc = "ok"

\* two nodes without edges, A the start and B the only end
TwoNodeScenario ==
    /\ succ = << <<>>, <<>> >>
    /\ ends = {2}
    /\ start = 1

\* C13: with A and B disconnected solve(A) fails and the visited set it
\* returns is {A}.
C13_Disconnected ==
    TwoNodeScenario =>
        /\ pc \in {"running", "err"}
        /\ pc = "running" => ENABLED Next
        /\ pc = "err" => visited = {1}

C13_Witness == TwoNodeScenario /\ pc = "err"

\* the starts find_shortest_route was given: the start of the map in part
\* one, all_start_points in part two
GivenStarts == IF part = 1 THEN {height_map.start} ELSE all_start_points(height_map)

\* the number of steps from the nodes of frontier to the nearest end, found
\* breadth first (every step of day12 has weight 1); empty when there is none
RECURSIVE Steps(_, _, _)
Steps(frontier, seen, k) ==
    IF frontier \cap ends # {}
    THEN {k}
    ELSE LET next == UNION {{succ[n][i][2] : i \in 1..Len(succ[n])} : n \in frontier} \ seen
         IN  IF next = {} THEN {} ELSE Steps(next, seen \cup next, k + 1)

\* the least number of steps from a start of S to the end, None when no
\* start of S reaches it
LeastDistance(S) ==
    LET d == Steps(S, S, 0)
    IN  IF d = {} THEN None ELSE [some |-> TRUE, value |-> Small(Only(d))]

\* C14: find_shortest_route never prunes a start that can reach the end, and
\* it returns the least of the shortest distances from its starts to the end,
\* None when no start reaches the end.
C14_PruningKeepsResult ==
    /\ (part # 0 /\ pc = "err") =>
           \A i \in 1..Len(starts) : starts[i] \in visited => Steps({starts[i]}, {starts[i]}, 0) = {}
    /\ (part # 0 /\ pc = "returned") => best = LeastDistance(GivenStarts)

\* the entry that the turn from this state to the next popped and expanded
Popped == Only({x \in queue : x.item.state \in visited' \ visited})

\* the entries that the turn pushes: one for each successor of the popped
\* state that is not visited
Candidates ==
    LET x == Popped
        edges == successors(x.item.state)
    IN  {NextEntry(x.item.cost, x.item.route, edges[i]) :
            i \in {j \in 1..Len(edges) : edges[j][2] \notin visited'}}

\* the second to last state of a route, 0 for the route of the start
Parent(route) == IF Len(route) >= 2 THEN route[Len(route) - 1] ELSE 0

\* C15: after a turn of the loop the frontier holds for each node that the
\* turn pushed a candidate for an entry whose own cost + heuristic is no more
\* than the candidate's: a queued entry that is strictly worse than the
\* candidate is replaced by it.
C15_ImprovementReplaces ==
    [][(pc = "running" /\ visited' # visited) =>
          \A cand \in Candidates : \A y \in queue' :
              y.item.state = cand.state =>
                  NumLeq(EntrySum(y.item.cost, y.item.state), EntrySum(cand.cost, cand.state))]_vars

\* C16: every queued entry is queued under the priority cost + heuristic of
\* that same entry.
C16_PriorityIsOwnEstimate ==
    \A x \in queue : x.priority = EntryPriority(x.item.cost, x.item.state)

\* C17: the frontier holds at most one entry for a node, whatever the costs
\* and routes of the entries pushed for it.
C17_OneEntryPerNode ==
    \A x, y \in queue : x.item.state = y.item.state => x = y

\* a node is queued, and a visited node that is not the parent of the queued
\* entry has an edge to it: two entries of different routes were pushed for
\* the node, and the priority of the queued one was raised
C17_Witness ==
    \E x \in queue : \E u \in visited :
        /\ EdgeWeights(u, x.item.state) # {}
        /\ Parent(x.item.route) # u
        /\ x.priority # EntryPriority(x.item.cost, x.item.state)

\* C18: a queued entry stays as it is, cost, route and priority, through a
\* turn all of whose candidates for its node have a cost + heuristic that is
\* not lower than the entry's priority (or than the entry's own cost +
\* heuristic).
C18_NoImprovementNoChange ==
    [][(pc = "running" /\ visited' # visited) =>
          \A y \in queue \ {Popped} :
              (\A cand \in Candidates :
                   cand.state = y.item.state =>
                       \/ NumLeq(y.priority, EntrySum(cand.cost, cand.state))
                       \/ NumLeq(EntrySum(y.item.cost, y.item.state), EntrySum(cand.cost, cand.state)))
              => y \in queue']_vars

\* a node is queued under its own cost + heuristic, and a visited node that
\* is not the parent of the queued entry has an edge to it: that node's
\* candidate was pushed after the queued entry and did not change it
C18_Witness ==
    \E x \in queue : \E u \in visited :
        /\ EdgeWeights(u, x.item.state) # {}
        /\ Parent(x.item.route) # u
        /\ x.priority = EntryPriority(x.item.cost, x.item.state)

\* C19: a visited node stays visited and is not queued by any turn, and a
\* turn whose successors are all visited only removes the popped entry from
\* the frontier and adds the popped state to the visited set.
C19_VisitedNeverQueued ==
    [][/\ \A n \in visited : n \in visited' /\ n \notin Queued(queue')
       /\ (pc = "running" /\ visited' # visited) =>
              LET x == Popped
                  edges == successors(x.item.state)
              IN  (\A i \in 1..Len(edges) : edges[i][2] \in visited \cup {x.item.state})
                  => /\ queue' = queue \ {x}
                     /\ visited' = visited \cup {x.item.state}]_vars

\* two visited nodes with an edge each way: the one expanded second met the
\* other as a visited successor
C19_Witness ==
    \E u, v \in visited : u # v /\ EdgeWeights(u, v) # {} /\ EdgeWeights(v, u) # {}

\* C20: the entry a pop removes has the least cost + heuristic of all the
\* entries of the frontier.
C20_PopYieldsLeastEstimate ==
    [][pc = "running" =>
          \A x \in queue :
              (x \notin queue' /\ (pc' = "ok" \/ x.item.state \in visited' \ visited)) =>
                  \A y \in queue : NumLeq(EntrySum(x.item.cost, x.item.state),
                                          EntrySum(y.item.cost, y.item.state))]_vars

\* C21: the goal test is made on the popped entry before it is marked
\* visited: a success returns the cost and route of the entry just popped and
\* marks nothing visited, a turn that expands a state does not end the search
\* with a success whatever successors it generates, and no end is ever in the
\* visited set.
C21_GoalTestOnPop ==
    [][/\ visited' \cap ends = {}
       /\ (pc = "running" /\ pc' = "ok") =>
              \E x \in PopCandidates(queue) :
                  /\ x.item.state \in ends
                  /\ ret' = [cost |-> x.item.cost, route |-> x.item.route]
                  /\ queue' = queue \ {x}
                  /\ visited' = visited
       /\ (pc = "running" /\ visited' # visited) => pc' = "running"]_vars

\* a state was expanded, an end is queued as a successor and the search goes on
C21_Witness ==
    /\ pc = "running"
    /\ visited # {}
    /\ \E x \in queue : x.item.state \in ends

\* C22: no node is at once queued and visited.
C22_QueueVisitedDisjoint == Queued(queue) \cap visited = {}

\* a visited node has a visited successor and a queued successor
C22_Witness ==
    \E x \in queue : \E u, v \in visited :
        /\ EdgeWeights(u, v) # {}
        /\ EdgeWeights(u, x.item.state) # {}

\* C23: the route of a queued entry starts with start, ends with the node of
\* the entry, holds no node twice, and all its nodes but the last are
\* visited.
C23_QueuedRoutes ==
    \A x \in queue :
        LET route == x.item.route
        IN  /\ Len(route) >= 1
            /\ route[1] = start
            /\ Last(route) = x.item.state
            /\ \A i, j \in 1..Len(route) : route[i] = route[j] => i = j
            /\ \A i \in 1..(Len(route) - 1) : route[i] \in visited

\* an entry is queued whose route has two steps
C23_Witness == pc = "running" /\ \E x \in queue : Len(x.item.route) >= 3

\* what solve can return from the queue q and the visited set seen, over all
\* the ways to pop among entries of equal priority
RECURSIVE SolveOutcomes(_, _)
SolveOutcomes(q, seen) ==
    IF q = {}
    THEN {[pc |-> "err", cost |-> NoRet.cost]}
    ELSE UNION {IF is_end(x.item.state)
                THEN {[pc |-> "ok", cost |-> x.item.cost]}
                ELSE LET marked == VisitedAfter(seen, x.item.state)
                         after == PushSuccessors(Remove(q, x), marked, x.item.cost,
                                                 x.item.route, successors(x.item.state), 1)
                     IN  SolveOutcomes(after.queue, marked) :
                x \in PopCandidates(q)}

Climb(p) == height_map.heights[height_map.end] - height_map.heights[p]

\* C26: the u8 subtraction of the heuristic does not underflow: for every
\* state that solve holds in its queue, and for every position of the parsed
\* map, the height of the end is not below the height of the position and
\* the heuristic is the difference; and the difference is no more than the
\* number of steps from the position to the end, when there are such steps.
\* The map does not change after the parse: its positions are gone through
\* once for each map, when the first search begins.
C26_HeightHeuristic ==
    part # 0 =>
        /\ \A x \in queue :
               /\ Climb(x.item.state) >= 0
               /\ heuristic(x.item.state) = Small(Climb(x.item.state))
        /\ (part = 1 /\ visited = {} /\ pc = "running") =>
               \A p \in Nodes :
                   LET steps == Steps({p}, {p}, 0)
                   IN  /\ Climb(p) >= 0
                       /\ heuristic(p) = Small(Climb(p))
                       /\ steps # {} => Climb(p) <= Only(steps)

\* a search begins on a map with a position that is as many steps from the
\* end as it is lower than the end, and a position that reaches the end by
\* more steps than that
C26_Witness ==
    /\ part = 1 /\ visited = {} /\ pc = "running"
    /\ \E p, q \in Nodes :
           /\ p # height_map.end
           /\ Steps({p}, {p}, 0) = {Climb(p)}
           /\ Steps({q}, {q}, 0) # {}
           /\ Only(Steps({q}, {q}, 0)) > Climb(q)

\* whether some walk from the positions of R at time t comes to the end: the
\* positions one can be at are followed from time to time until the end is
\* among them, or until they repeat at a time that is the same in the
\* period of the blizzards
RECURSIVE EndReached(_, _, _)
EndReached(R, t, seen) ==
    IF map.end \in R
    THEN TRUE
    ELSE LET key == <<R, t % (map.width * map.height)>>
             to == R \cup {<<p[1] + Adjacent[i][1], p[2] + Adjacent[i][2]>> :
                              p \in R, i \in 1..Len(Adjacent)}
         IN  IF key \in seen
             THEN FALSE
             ELSE EndReached({p \in to : is_free_at_time(map, p, t + 1)}, t + 1, seen \cup {key})

EndReachable == EndReached({map.start}, 0, {})

\* C25: every successor of an expanded state of day24 has the next time, an
\* expanded state at the start has the state that waits there among its
\* successors, and while the end cannot be reached solve keeps running with
\* a queue that is not empty, a state at the start in it: it returns
\* neither Ok nor Err.
C25_BlizzardSearchGoesOn ==
    /\ \A n \in visited :
           /\ \A i \in 1..Len(successors(n)) : successors(n)[i][2].time = n.time + 1
           /\ n.position = map.start =>
                  \E i \in 1..Len(successors(n)) :
                      successors(n)[i][2] = [position |-> map.start, time |-> n.time + 1]
    /\ ~EndReachable =>
           /\ pc = "running"
           /\ queue # {}
           /\ \E x \in queue : x.item.state.position = map.start /\ x.item.state \notin visited

\* the end cannot be reached and the search has expanded a state of the
\* last time of the model
C25_Witness ==
    /\ ~EndReachable
    /\ \E n \in visited : n.time = MaxTime

\* the character of the input at a position, "" outside the lines
CharAt(position) ==
    IF position[2] + 2 \in 1..Len(grid) /\ position[1] + 2 \in 1..Len(grid[position[2] + 2])
    THEN grid[position[2] + 2][position[1] + 2]
    ELSE ""

InBounds(position) ==
    /\ position[1] >= 0 /\ position[1] < map.width
    /\ position[2] >= 0 /\ position[2] < map.height

\* C27: at time 0 is_free_at_time is true exactly at the start, at the end
\* and at the cells within bounds that hold no blizzard in the input; it is
\* false at walls, outside the bounds and at every cell that holds a blizzard
\* of one of the four directions; over the lines of the input it is true
\* exactly where the input holds '.'.
C27_FreeAtTimeZero ==
    probe.asked =>
        LET position == probe.position
            blizzard == CharAt(position) \in {"^", ">", "v", "<"}
        IN  /\ probe.is_free <=> \/ position = map.start
                                 \/ position = map.end
                                 \/ InBounds(position) /\ ~blizzard
            /\ CharAt(position) = "#" => ~probe.is_free
            /\ (~InBounds(position) /\ position \notin {map.start, map.end}) => ~probe.is_free
            /\ blizzard => ~probe.is_free
            /\ CharAt(position) # "" => (probe.is_free <=> probe.should_be_free)

\* a cell within bounds was found free, in an input that holds a blizzard
\* in the row or the column of the cell
C27_Witness ==
    /\ probe.asked
    /\ probe.is_free
    /\ InBounds(probe.position)
    /\ \E d \in Directions : \E outer \in DOMAIN map.blizzards[d] :
           /\ outer = (IF d \in {0, 2} THEN probe.position[1] ELSE probe.position[2])
           /\ map.blizzards[d][outer] # {}

====
